---- MODULE Spec2Model ----
(***************************************************************************)
(* A model of the vector functions of datar/plyrda (dplyr semantics on     *)
(* pandas): ranking, ntile, lead/lag, recode, case_when, if_else,          *)
(* coalesce, replace_na, the column selectors (all_of, starts_with,        *)
(* ends_with, contains, matches, select_columns), n_groups, group_size,    *)
(* group_split, group_indices, with_groups and register_grouped.           *)
(*                                                                         *)
(* The functions are pure.  A behaviour is one call: Init draws the        *)
(* arguments of the call, an action applies one function to them and       *)
(* stores what it returns in out.                                          *)
(***************************************************************************)
EXTENDS Integers, Sequences, FiniteSets, TLC

VARIABLES
    args,   \* the arguments of the call, a record
    fn,     \* the function that was applied, "none" before the call
    out,    \* what the call returned
    err     \* the exception the call raised, "none" when it returned

vars == <<args, fn, out, err>>

\* ---------------------------------------------------------------- bounds
MaxLen == 4     \* longest series
MaxVal == 3     \* numeric elements are 1..MaxVal
MaxN == 3       \* largest number of buckets, largest shift
MaxShiftLen == 3 \* longest series of lead and lag
MaxOrd == 2     \* order_by elements are 1..MaxOrd
MaxRecLen == 2  \* longest series of recode
MaxArgs == 2    \* most positional arguments of recode
MaxRows == 2    \* most rows of the frame of case_when
MaxPairs == 2   \* most (condition, value) pairs of case_when
MaxCoLen == 2   \* longest vector of coalesce
MaxCols == 3    \* most columns of a frame
MaxSel == 2     \* most names given to a column selector
MaxGRows == 3   \* most rows of a grouped frame
MaxKey == 2     \* largest value of a grouping key
MaxIRows == 3   \* most rows of a frame that is split or indexed

\* ------------------------------------------------------------- constants
\* The missing value of a numeric series (numpy.nan).
NA == -1

Vals == 1..MaxVal
Elems == Vals \cup {NA}
Vectors == UNION {[1..l -> Elems] : l \in 0..MaxLen}

Idx(s) == 1..Len(s)
NotNA(s) == {i \in Idx(s) : s[i] # NA}

\* ---------------------------------------------------- float arithmetic
\* A float is a fraction <<numerator, denominator>>; NaN is 0/0 and a
\* nonzero numerator over 0 is an infinity, as in IEEE division.
NaN == <<0, 0>>
Frac(a, b) == <<a, b>>
IsNaN(f) == f[1] = 0 /\ f[2] = 0
Norm(f) == IF f[2] < 0 THEN <<-f[1], -f[2]>> ELSE f
FSub(f, g) ==
    IF IsNaN(f) \/ IsNaN(g) THEN NaN
    ELSE Norm(<<f[1] * g[2] - g[1] * f[2], f[2] * g[2]>>)
FDiv(f, g) ==
    IF IsNaN(f) \/ IsNaN(g) THEN NaN
    ELSE Norm(<<f[1] * g[2], f[2] * g[1]>>)
FEq(f, g) == ~IsNaN(f) /\ ~IsNaN(g) /\ f[1] * g[2] = g[1] * f[2]
FLe(f, g) == ~IsNaN(f) /\ ~IsNaN(g) /\ f[1] * g[2] <= g[1] * f[2]
\* Equality of two results, where NaN stands for the missing result.
SameFloat(f, g) == IF IsNaN(f) \/ IsNaN(g) THEN IsNaN(f) /\ IsNaN(g) ELSE FEq(f, g)

\* Series.min() / Series.max(): NaN is skipped, an all-NaN series gives NaN.
SeriesMin(r) ==
    LET S == {r[i] : i \in {j \in Idx(r) : ~IsNaN(r[j])}}
    IN  IF S = {} THEN NaN ELSE CHOOSE f \in S : \A g \in S : FLe(f, g)
SeriesMax(r) ==
    LET S == {r[i] : i \in {j \in Idx(r) : ~IsNaN(r[j])}}
    IN  IF S = {} THEN NaN ELSE CHOOSE f \in S : \A g \in S : FLe(g, f)

\* ---------------------------------------------------------------- ranking
\* na_option of Series.rank, from na_last: "keep" keeps, a false na_last
\* puts the missing first ("top"), anything else last ("bottom").
na_option(na_last) ==
    IF na_last = "keep" THEN "keep"
    ELSE IF na_last = "FALSE" THEN "top"
    ELSE "bottom"

\* Series.rank: a precedes b in the ranking order.
Precedes(a, b, ascending, opt) ==
    IF a = NA /\ b = NA THEN FALSE
    ELSE IF a = NA THEN opt = "top"
    ELSE IF b = NA THEN opt = "bottom"
    ELSE IF ascending THEN a < b ELSE a > b

\* Series.rank(method, ascending, pct, na_option) for method "min"/"dense".
rank(data, method, ascending, pct, opt) ==
    LET ranked == {i \in Idx(data) : opt # "keep" \/ data[i] # NA}
        before(i) == {j \in ranked : Precedes(data[j], data[i], ascending, opt)}
        raw(i) == IF method = "min"
                  THEN 1 + Cardinality(before(i))
                  ELSE 1 + Cardinality({data[j] : j \in before(i)})
        count == IF method = "min"
                 THEN Cardinality(ranked)
                 ELSE Cardinality({data[j] : j \in ranked})
    IN  [i \in Idx(data) |->
            IF i \notin ranked THEN NaN
            ELSE IF pct THEN Frac(raw(i), count)
            ELSE Frac(raw(i), 1)]

\* _ranking: a DescSeries is ranked in descending order.
ranking(data, desc, na_last, method, percent) ==
    rank(data, method, ~desc, percent, na_option(na_last))

\* Mutant of min_rank: the dense method where the min method is meant.
min_rank_dense(series, desc, na_last) == ranking(series, desc, na_last, "dense", FALSE)

min_rank(series, desc, na_last) == ranking(series, desc, na_last, "min", FALSE)

\* Mutant of dense_rank: the min method where the dense method is meant.
dense_rank_min(series, desc, na_last) == ranking(series, desc, na_last, "min", FALSE)

dense_rank(series, desc, na_last) == ranking(series, desc, na_last, "dense", FALSE)

percent_rank(series, desc, na_last) ==
    LET r == ranking(series, desc, na_last, "min", TRUE)
        mn == SeriesMin(r)
        mx == SeriesMax(r)
    IN  [i \in Idx(r) |->
            IF IsNaN(r[i]) THEN NaN
            ELSE FDiv(FSub(r[i], mn), FSub(mx, mn))]

cume_dist(series, desc, na_last) ==
    LET r == ranking(series, desc, na_last, "min", FALSE)
        max_ranking == SeriesMax(r)
        le(i) == Cardinality({j \in Idx(r) : FLe(r[j], r[i])})
    IN  [i \in Idx(r) |->
            IF IsNaN(r[i]) THEN NaN
            ELSE FDiv(Frac(le(i), 1), max_ranking)]

\* ------------------------------------------------ the ranking calls
NaLast == {"keep", "TRUE", "FALSE"}

InitRank ==
    /\ args \in [series : Vectors, desc : BOOLEAN, na_last : NaLast]
    /\ fn = "none"
    /\ out = <<>>
    /\ err = "none"

CallMinRank ==
    /\ fn = "none"
    /\ fn' = "min_rank"
    /\ out' = min_rank(args.series, args.desc, args.na_last)
    /\ UNCHANGED <<args, err>>

CallDenseRank ==
    /\ fn = "none"
    /\ fn' = "dense_rank"
    /\ out' = dense_rank(args.series, args.desc, args.na_last)
    /\ UNCHANGED <<args, err>>

CallPercentRank ==
    /\ fn = "none"
    /\ fn' = "percent_rank"
    /\ out' = percent_rank(args.series, args.desc, args.na_last)
    /\ UNCHANGED <<args, err>>

CallCumeDist ==
    /\ fn = "none"
    /\ fn' = "cume_dist"
    /\ out' = cume_dist(args.series, args.desc, args.na_last)
    /\ UNCHANGED <<args, err>>

NextRank == CallMinRank \/ CallDenseRank \/ CallPercentRank \/ CallCumeDist

SpecRank == InitRank /\ [][NextRank]_vars

\* ------------------------------------------------ ranking: properties
\* The order the elements are read in: a DescSeries stands for its values
\* in descending order, so "smaller" is the reverse there.
Smaller(a, b, desc) == IF desc THEN a > b ELSE a < b
SmallerEq(a, b, desc) == a = b \/ Smaller(a, b, desc)

\* R's min_rank, dense_rank of element i (i not missing), na_last = "keep".
R_min_rank(s, desc, i) ==
    1 + Cardinality({j \in NotNA(s) : Smaller(s[j], s[i], desc)})
R_dense_rank(s, desc, i) ==
    1 + Cardinality({s[j] : j \in {l \in NotNA(s) : Smaller(s[l], s[i], desc)}})

\* C1: percent_rank of a vector with k >= 2 non-missing elements gives
\* element i the value (m_i - 1)/(k - 1), m_i its min_rank, also when the
\* largest value is tied; a missing element gets a missing result.
C1_PercentRankMatchesR ==
    (fn = "percent_rank" /\ args.na_last = "keep"
        /\ Cardinality(NotNA(args.series)) >= 2) =>
    /\ Len(out) = Len(args.series)
    /\ \A i \in Idx(args.series) :
        IF args.series[i] = NA THEN IsNaN(out[i])
        ELSE SameFloat(out[i],
                Frac(R_min_rank(args.series, args.desc, i) - 1,
                     Cardinality(NotNA(args.series)) - 1))

\* C2: cume_dist gives element i (number of non-missing elements <= x_i) /
\* (number of non-missing elements), a value in (0, 1], 1 for the largest
\* value; a missing element gets a missing result.
C2_CumeDistMatchesR ==
    (fn = "cume_dist" /\ args.na_last = "keep") =>
    /\ Len(out) = Len(args.series)
    /\ \A i \in Idx(args.series) :
        IF args.series[i] = NA THEN IsNaN(out[i])
        ELSE /\ SameFloat(out[i],
                   Frac(Cardinality({j \in NotNA(args.series) :
                            SmallerEq(args.series[j], args.series[i], args.desc)}),
                        Cardinality(NotNA(args.series))))
             /\ FLe(out[i], Frac(1, 1))
             /\ ~FLe(out[i], Frac(0, 1))

\* C3: min_rank with na_last = "keep" ranks a non-missing element 1 + the
\* number of non-missing elements strictly smaller than it: tied elements
\* share the smallest rank of the tie, the rank after a tie of size t is t
\* further on, and a missing element keeps a missing rank, uncounted.
C3_MinRank ==
    (fn = "min_rank" /\ args.na_last = "keep") =>
    /\ Len(out) = Len(args.series)
    /\ \A i \in Idx(args.series) :
        IF args.series[i] = NA THEN IsNaN(out[i])
        ELSE out[i] = Frac(R_min_rank(args.series, args.desc, i), 1)
    /\ \A i, j \in NotNA(args.series) :
        LET s == args.series
            t == Cardinality({l \in NotNA(s) : s[l] = s[i]})
        IN  /\ s[i] = s[j] => out[i] = out[j]
            /\ (/\ Smaller(s[i], s[j], args.desc)
                /\ ~\E l \in NotNA(s) : /\ Smaller(s[i], s[l], args.desc)
                                        /\ Smaller(s[l], s[j], args.desc))
               => out[j][1] = out[i][1] + t

\* A tie of two, a larger element after the tie and a missing element.
C3_Witness ==
    /\ fn = "min_rank" /\ args.na_last = "keep" /\ ~args.desc
    /\ \E i, j, l, m \in Idx(args.series) :
        /\ i # j /\ args.series[i] = args.series[j]
        /\ args.series[i] # NA /\ args.series[l] # NA
        /\ args.series[i] < args.series[l]
        /\ args.series[m] = NA
        /\ out[i] = Frac(1, 1) /\ out[l] = Frac(3, 1) /\ IsNaN(out[m])

\* C4: dense_rank with na_last = "keep" ranks a non-missing element 1 + the
\* number of distinct non-missing values strictly smaller than it, so the
\* ranks used are exactly 1..d, d the number of distinct non-missing
\* values; a missing element keeps a missing rank.
C4_DenseRank ==
    (fn = "dense_rank" /\ args.na_last = "keep") =>
    /\ Len(out) = Len(args.series)
    /\ \A i \in Idx(args.series) :
        IF args.series[i] = NA THEN IsNaN(out[i])
        ELSE out[i] = Frac(R_dense_rank(args.series, args.desc, i), 1)
    /\ {out[i][1] : i \in NotNA(args.series)}
         = 1..Cardinality({args.series[i] : i \in NotNA(args.series)})

\* A tie of two below a larger element, which gets rank 2, and a missing one.
C4_Witness ==
    /\ fn = "dense_rank" /\ args.na_last = "keep" /\ ~args.desc
    /\ \E i, j, l, m \in Idx(args.series) :
        /\ i # j /\ args.series[i] = args.series[j]
        /\ args.series[i] # NA /\ args.series[l] # NA
        /\ args.series[i] < args.series[l]
        /\ args.series[m] = NA
        /\ out[i] = Frac(1, 1) /\ out[l] = Frac(2, 1) /\ IsNaN(out[m])

\* ------------------------------------------------------------------ ntile
\* pandas.cut(x, n) on a range mn < mx: n bins of equal width between mn
\* and mx, closed on the right, the first one widened to take mn.  The
\* label of x is the number of inner edges mn + k*(mx - mn)/n below x.
cut_label(x, mn, mx, n) ==
    Cardinality({k \in 1..n : k * (mx - mn) < (x - mn) * n})

\* pandas.cut when all values are equal (mn = mx): the range is widened by
\* 0.1% on both sides, so the value sits in the middle of it.  For an even
\* n the middle is the edge between two bins and the rounding of the float
\* edge decides which of the two takes the value.
cut_label_equal(n) ==
    IF n % 2 = 1 THEN {(n - 1) \div 2} ELSE {n \div 2 - 1, n \div 2}

SetMin(S) == CHOOSE x \in S : \A y \in S : x <= y
SetMax(S) == CHOOSE x \in S : \A y \in S : y <= x

\* ntile(series, n) = pandas.cut(series, n, labels=range(n)): the set of
\* the results the call can give, each <<exception, labels>>.
ntile(series, n) ==
    LET present == {series[i] : i \in NotNA(series)}
    IN  IF n < 1 THEN {<<"ValueError", <<>>>>}
        ELSE IF Len(series) = 0 THEN {<<"ValueError", <<>>>>}
        ELSE IF present = {} THEN {<<"none", [i \in Idx(series) |-> NA]>>}
        ELSE LET mn == SetMin(present)
                 mx == SetMax(present)
             IN  IF mn = mx
                 THEN {<<"none", [i \in Idx(series) |->
                                    IF series[i] = NA THEN NA ELSE lab]>> :
                            lab \in cut_label_equal(n)}
                 ELSE {<<"none", [i \in Idx(series) |->
                                    IF series[i] = NA THEN NA
                                    ELSE cut_label(series[i], mn, mx, n)]>>}

NtileVals == 1..(MaxVal + 2)
NtileVectors == UNION {[1..l -> NtileVals \cup {NA}] : l \in 0..MaxLen}

InitNtile ==
    /\ args \in [series : NtileVectors, n : 0..MaxN]
    /\ fn = "none"
    /\ out = <<>>
    /\ err = "none"

CallNtile ==
    /\ fn = "none"
    /\ fn' = "ntile"
    /\ \E r \in ntile(args.series, args.n) :
        /\ err' = r[1]
        /\ out' = r[2]
    /\ UNCHANGED args

NextNtile == CallNtile

SpecNtile == InitNtile /\ [][NextNtile]_vars

\* C5: ntile(series, n) breaks the vector into n buckets as R's ntile does:
\* every element gets a label in 0..n-1, a larger value never gets a
\* smaller label than a smaller value, and the sizes of any two buckets
\* differ by at most one.
C5_NtileBuckets ==
    (fn = "ntile" /\ err = "none") =>
    LET s == args.series
        size(b) == Cardinality({i \in NotNA(s) : out[i] = b})
    IN  /\ Len(out) = Len(s)
        /\ \A i \in NotNA(s) : out[i] \in 0..(args.n - 1)
        /\ \A i, j \in NotNA(s) : s[i] < s[j] => out[i] <= out[j]
        /\ \A b, c \in 0..(args.n - 1) : size(b) - size(c) <= 1

\* -------------------------------------------------------------- lead, lag
Min2(a, b) == IF a <= b THEN a ELSE b
Max2(a, b) == IF a >= b THEN a ELSE b

\* Python slices of a sequence of length L, for n >= 0.
\* values[n:]
PyFrom(values, n) == SubSeq(values, Min2(n, Len(values)) + 1, Len(values))
\* values[:-n]  (-0 is 0: values[:0] is empty)
PyUntilNeg(values, n) ==
    SubSeq(values, 1, IF n = 0 THEN 0 ELSE Max2(Len(values) - n, 0))

\* lag:  ret = [default] * len(series); ret[n:] = series.values[:-n]
lag_values(values, n, default) ==
    LET ret == [i \in Idx(values) |-> default]
    IN  SubSeq(ret, 1, Min2(n, Len(ret))) \o PyUntilNeg(values, n)

\* Mutant of lead_values: the values are shifted the wrong way.
lead_values_backwards(values, n, default) == lag_values(values, n, default)

\* lead: ret = [default] * len(series); ret[:-n] = series.values[n:]
lead_values(values, n, default) ==
    LET ret == [i \in Idx(values) |-> default]
        stop == IF n = 0 THEN 0 ELSE Max2(Len(ret) - n, 0)
    IN  PyFrom(values, n) \o SubSeq(ret, stop + 1, Len(ret))

\* order_by.sort_values(ascending).index: the orders of the positions that
\* sort order_by (quicksort: tied positions come in any order).
SortedIndex(order_by, ascending) ==
    {p \in [Idx(order_by) -> Idx(order_by)] :
        /\ \A i, j \in Idx(order_by) : i # j => p[i] # p[j]
        /\ \A k \in 1..(Len(order_by) - 1) :
            IF ascending THEN order_by[p[k]] <= order_by[p[k + 1]]
            ELSE order_by[p[k]] >= order_by[p[k + 1]]}

\* What lead and lag share: the series is put in the order of order_by (when
\* given), shifted, wrapped in a Series over the index (which raises
\* ValueError when the length is not the length of the index) and put back
\* in the original order.  kind is "lead" or "lag"; order_by is <<>> for None.
\* The set of the results the call can give, each <<exception, values>>.
shifted(kind, series, n, default, has_order, order_by, desc) ==
    LET shift(v) == IF kind = "lead" THEN lead_values(v, n, default)
                    ELSE lag_values(v, n, default)
    IN  IF ~has_order
        THEN {IF Len(shift(series)) # Len(series)
              THEN <<"ValueError", <<>>>>
              ELSE <<"none", shift(series)>>}
        ELSE {LET sorted == [k \in Idx(series) |-> series[p[k]]]
                  ret == shift(sorted)
              IN  IF Len(ret) # Len(series)
                  THEN <<"ValueError", <<>>>>
                  ELSE <<"none", [i \in Idx(series) |->
                                    ret[CHOOSE k \in Idx(series) : p[k] = i]]>> :
              p \in SortedIndex(order_by, ~desc)}

lead(series, n, default, has_order, order_by, desc) ==
    shifted("lead", series, n, default, has_order, order_by, desc)

lag(series, n, default, has_order, order_by, desc) ==
    shifted("lag", series, n, default, has_order, order_by, desc)

\* The default is NA or a value no series holds.
Defaults == {NA, 0}

\* Without order_by, and with an order_by of the length of the series (the
\* series then holds its positions, so that every move of an element shows).
ShiftArgsPlain(l) ==
    [series : [1..l -> Elems], n : 0..MaxN, default : Defaults,
     has_order : {FALSE}, order_by : {<<>>}, desc : {FALSE}]

ShiftArgsOrdered(l) ==
    [series : {[i \in 1..l |-> i]}, n : 0..MaxN, default : Defaults,
     has_order : {TRUE}, order_by : [1..l -> 1..MaxOrd], desc : BOOLEAN]

InitShift ==
    /\ \E l \in 0..MaxShiftLen :
        args \in ShiftArgsPlain(l) \/ args \in ShiftArgsOrdered(l)
    /\ fn = "none"
    /\ out = <<>>
    /\ err = "none"

CallLead ==
    /\ fn = "none"
    /\ fn' = "lead"
    /\ \E r \in lead(args.series, args.n, args.default,
                     args.has_order, args.order_by, args.desc) :
        /\ err' = r[1]
        /\ out' = r[2]
    /\ UNCHANGED args

CallLag ==
    /\ fn = "none"
    /\ fn' = "lag"
    /\ \E r \in lag(args.series, args.n, args.default,
                    args.has_order, args.order_by, args.desc) :
        /\ err' = r[1]
        /\ out' = r[2]
    /\ UNCHANGED args

NextShift == CallLead \/ CallLag

SpecShift == InitShift /\ [][NextShift]_vars

\* C6: without order_by and for a positive n, lead(series, n) has the
\* length L of the series and element i (0-based) is series[i+n] when
\* i+n < L and default otherwise; lag(series, n) has length L and element i
\* is series[i-n] when i >= n and default otherwise; also when n >= L.
C6_LeadLag ==
    (fn \in {"lead", "lag"} /\ ~args.has_order /\ args.n >= 1) =>
    LET s == args.series
        L == Len(s)
    IN  /\ err = "none"
        /\ Len(out) = L
        /\ fn = "lead" =>
            \A i \in 0..(L - 1) :
                out[i + 1] = IF i + args.n < L THEN s[i + args.n + 1]
                             ELSE args.default
        /\ fn = "lag" =>
            \A i \in 0..(L - 1) :
                out[i + 1] = IF i >= args.n THEN s[i - args.n + 1]
                             ELSE args.default

\* lead by 2 on a series of 3: the last element comes first, defaults follow.
C6_WitnessLead ==
    /\ fn = "lead" /\ ~args.has_order /\ args.n = 2 /\ Len(args.series) = 3
    /\ args.default = 0 /\ args.series[3] = 1
    /\ out = <<1, 0, 0>>

\* ----------------------------------------------------------------- recode
\* A value of recode is <<type, v>>: an int, a str, the missing value or
\* None (an argument that is not supplied).
NAv == <<"NA", 0>>
None == <<"None", 0>>
TypeOf(v) == v[1]

\* The elements of the series: the ints 0 and 1 and the str "a".
RecElems == {<<"int", 0>>, <<"int", 1>>, <<"str", 1>>}
\* The replacements: an int and a str that are no elements.
Repl == {<<"int", 10>>, <<"str", 10>>}
\* _default and _missing when supplied.
DefaultVal == <<"int", 20>>
MissingVal == <<"str", 30>>

EmptyDict == <<>>
\* dict.update: the entries of d, overwritten or extended by those of upd.
Update(d, upd) ==
    [k \in DOMAIN d \cup DOMAIN upd |-> IF k \in DOMAIN upd THEN upd[k] ELSE d[k]]

\* Mutant of PosKey: the positional replacements are numbered from 1.
PosKeyOneBased(i) == <<"int", i>>

\* The key of the i-th positional argument (i from 1): enumerate() counts
\* from 0.
PosKey(i) == <<"int", i - 1>>

\* An argument is <<"dict", d>> or <<"pos", replacement>>.
\* for i, arg in enumerate(args): a dict updates the recodes, anything else
\* is the recode of i.  The recodes after the first k arguments.
RECURSIVE ArgRecodes(_, _)
ArgRecodes(a, k) ==
    IF k = 0 THEN EmptyDict
    ELSE LET before == ArgRecodes(a, k - 1)
         IN  IF a[k][1] = "dict" THEN Update(before, a[k][2])
             ELSE Update(before, [key \in {PosKey(k)} |-> a[k][2]])

kwd_recodes(a, kwargs) == Update(ArgRecodes(a, Len(a)), kwargs)

recode(series, a, default, missing, kwargs) ==
    LET recodes == kwd_recodes(a, kwargs)
        get(elem) == IF elem \in DOMAIN recodes THEN recodes[elem] ELSE default
        replace(elem) == IF get(elem) = None THEN elem ELSE get(elem)
    IN  [i \in Idx(series) |->
            IF series[i] = NAv THEN missing ELSE replace(series[i])]

\* The dicts with one entry.
Dicts == UNION {[{k} -> Repl] : k \in RecElems}
RecArg == ({"pos"} \X Repl) \cup ({"dict"} \X Dicts)
\* Keyword replacements: the keyword a, or none.
Kwargs == {EmptyDict} \cup [{<<"str", 1>>} -> Repl]

InitRecode ==
    /\ args \in [series : UNION {[1..l -> RecElems \cup {NAv}] : l \in 0..MaxRecLen},
                 args : UNION {[1..l -> RecArg] : l \in 0..MaxArgs},
                 default : {None, DefaultVal},
                 missing : {NAv, MissingVal},
                 kwargs : Kwargs]
    /\ fn = "none"
    /\ out = <<>>
    /\ err = "none"

CallRecode ==
    /\ fn = "none"
    /\ fn' = "recode"
    /\ out' = recode(args.series, args.args, args.default, args.missing, args.kwargs)
    /\ UNCHANGED <<args, err>>

NextRecode == CallRecode

SpecRecode == InitRecode /\ [][NextRecode]_vars

\* The replacements the call gives for elem: by a positional argument at the
\* 0-based index elem, by a dict, or by keyword.
Mapped(elem) ==
    {args.args[k][2][elem] :
        k \in {j \in Idx(args.args) :
                args.args[j][1] = "dict" /\ elem \in DOMAIN args.args[j][2]}}
    \cup {args.args[k][2] :
            k \in {j \in Idx(args.args) :
                    args.args[j][1] = "pos" /\ elem = <<"int", j - 1>>}}
    \cup {args.kwargs[key] : key \in {x \in DOMAIN args.kwargs : x = elem}}

AllReplacements == UNION {Mapped(elem) : elem \in RecElems}

C8_RecodeIncompatibleGivesNA ==
    (fn = "recode" /\ args.default = None /\ AllReplacements # {}) =>
    LET present == {args.series[i] : i \in {j \in Idx(args.series) : args.series[j] # NAv}}
        same == \A r \in AllReplacements : \A e \in present : TypeOf(r) = TypeOf(e)
        other == \A r \in AllReplacements : \A e \in present : TypeOf(r) # TypeOf(e)
    IN  \A i \in Idx(args.series) :
            (args.series[i] # NAv /\ Mapped(args.series[i]) = {}) =>
                /\ other => out[i] = NAv
                /\ same => out[i] = args.series[i]

\* -------------------------------------------------------------- case_when
\* A condition is <<"True", <<>>>> (the literal True) or <<"mask", m>>, m a
\* boolean vector with one entry per row.  A value is <<"scalar", v>> or
\* <<"series", s>>, s a vector with one entry per row.
TrueLit == <<"True", <<>>>>
Conds(nrow) == {TrueLit} \cup ({"mask"} \X [1..nrow -> BOOLEAN])
CaseValues(nrow) ==
    ({"scalar"} \X {1, 2})
    \cup {<<"series", [r \in 1..nrow |-> 10 + r]>>,
          <<"series", [r \in 1..nrow |-> 20 + r]>>}

\* Mutant of odd_arguments: the number of arguments is not checked.
odd_arguments_unchecked(when_cases) == FALSE

\* len(when_cases) % 2 != 0
odd_arguments(when_cases) == Len(when_cases) % 2 # 0

\* list(zip(when_cases[0::2], when_cases[1::2])): zip stops at the shorter.
zip_cases(when_cases) ==
    [j \in 1..(Len(when_cases) \div 2) |->
        <<when_cases[2 * j - 1], when_cases[2 * j]>>]

\* Mutant of reversed_cases: the cases are applied first to last.
cases_in_order(pairs) == pairs

\* reversed(...): the last case is applied first, so that the first wins.
reversed_cases(pairs) == [j \in Idx(pairs) |-> pairs[Len(pairs) + 1 - j]]

ValueAt(val, r) == IF val[1] = "scalar" THEN val[2] ELSE val[2][r]

\* One pass of the loop of the data-frame variant on column x:
\*   case is True:  df['x'] = ret            (every row)
\*   otherwise:     df.loc[case, 'x'] = ret  (the rows where case holds;
\*                                            a Series is aligned on the index)
apply_case_df(x, case, ret) ==
    [r \in Idx(x) |->
        IF case = TrueLit \/ case[2][r] THEN ValueAt(ret, r) ELSE x[r]]

RECURSIVE loop_df(_, _, _)
loop_df(x, cases, k) ==
    IF k > Len(cases) THEN x
    ELSE loop_df(apply_case_df(x, cases[k][1], cases[k][2]), cases, k + 1)

\* case_when on a DataFrame: <<exception, x, number of cases applied>>.
case_when(nrow, when_cases) ==
    IF odd_arguments(when_cases) THEN <<"ValueError", <<>>, 0>>
    ELSE LET cases == reversed_cases(zip_cases(when_cases))
         IN  <<"none", loop_df([r \in 1..nrow |-> NA], cases, 1), Len(cases)>>

\* The same function in plyrda (df.loc[case, 'x'] without reset_index).
case_when_plyrda(nrow, when_cases) ==
    IF odd_arguments(when_cases) THEN <<"ValueError", <<>>, 0>>
    ELSE LET cases == reversed_cases(zip_cases(when_cases))
         IN  <<"none", loop_df([r \in 1..nrow |-> NA], cases, 1), Len(cases)>>

\* One pass of the loop of the list variant on the array ret:
\*   case is True:  ret[numpy.isnan(ret)] = val   (the rows still NA)
\*   otherwise:     ret[case] = val
\* numpy assigns an array through a mask only when it has one value per
\* selected row (or a single value); otherwise it raises ValueError.
\* <<exception, ret>>.
apply_case_list(ret, case, val) ==
    LET mask == [r \in Idx(ret) |->
                    IF case = TrueLit THEN ret[r] = NA ELSE case[2][r]]
        hit == {r \in Idx(ret) : mask[r]}
        nth(r) == Cardinality({q \in hit : q <= r})
    IN  IF val[1] = "scalar"
        THEN <<"none", [r \in Idx(ret) |-> IF mask[r] THEN val[2] ELSE ret[r]]>>
        ELSE IF Len(val[2]) = Cardinality(hit) \/ Len(val[2]) = 1
        THEN <<"none", [r \in Idx(ret) |->
                          IF mask[r]
                          THEN (IF Len(val[2]) = 1 THEN val[2][1] ELSE val[2][nth(r)])
                          ELSE ret[r]]>>
        ELSE <<"ValueError", ret>>

RECURSIVE loop_list(_, _, _)
loop_list(ret, cases, k) ==
    IF k > Len(cases) THEN <<"none", ret, Len(cases)>>
    ELSE LET step == apply_case_list(ret, cases[k][1], cases[k][2])
         IN  IF step[1] # "none" THEN <<step[1], <<>>, k>>
             ELSE loop_list(step[2], cases, k + 1)

\* case_when on a list, tuple or array.
case_when_list(nrow, when_cases) ==
    IF odd_arguments(when_cases) THEN <<"ValueError", <<>>, 0>>
    ELSE loop_list([r \in 1..nrow |-> NA],
                   reversed_cases(zip_cases(when_cases)), 1)

\* The arguments: the pairs, and a last condition without a value when the
\* number of arguments is odd.
Flatten(pairs) ==
    [k \in 1..(2 * Len(pairs)) |-> pairs[(k + 1) \div 2][IF k % 2 = 1 THEN 1 ELSE 2]]

WhenCases(nrow) ==
    LET P == UNION {[1..l -> Conds(nrow) \X CaseValues(nrow)] : l \in 0..MaxPairs}
    IN  {Flatten(p) : p \in P} \cup {Flatten(p) \o <<TrueLit>> : p \in P}

InitCaseWhen ==
    /\ \E nrow \in 0..MaxRows :
        args \in [nrow : {nrow}, when_cases : WhenCases(nrow)]
    /\ fn = "none"
    /\ out = <<>>
    /\ err = "none"

CallCaseWhen ==
    /\ fn = "none"
    /\ fn' = "case_when"
    /\ LET r == case_when(args.nrow, args.when_cases)
       IN  err' = r[1] /\ out' = [x |-> r[2], applied |-> r[3]]
    /\ UNCHANGED args

CallCaseWhenPlyrda ==
    /\ fn = "none"
    /\ fn' = "case_when_plyrda"
    /\ LET r == case_when_plyrda(args.nrow, args.when_cases)
       IN  err' = r[1] /\ out' = [x |-> r[2], applied |-> r[3]]
    /\ UNCHANGED args

CallCaseWhenList ==
    /\ fn = "none"
    /\ fn' = "case_when_list"
    /\ LET r == case_when_list(args.nrow, args.when_cases)
       IN  err' = r[1] /\ out' = [x |-> r[2], applied |-> r[3]]
    /\ UNCHANGED args

NextCaseWhen == CallCaseWhen \/ CallCaseWhenPlyrda \/ CallCaseWhenList

SpecCaseWhen == InitCaseWhen /\ [][NextCaseWhen]_vars

\* Condition j of the call holds at row r.
CondHolds(j, r) ==
    LET c == args.when_cases[2 * j - 1]
    IN  c = TrueLit \/ c[2][r]

\* C9: case_when on a data frame with an even number of arguments returns
\* one element per row; row r holds value_j for the smallest j whose
\* condition is true at row r (the literal True is true at every row) and
\* NA when no condition is true at row r.
C9_CaseWhenFirstMatch ==
    (fn \in {"case_when", "case_when_plyrda"} /\ Len(args.when_cases) % 2 = 0) =>
    /\ err = "none"
    /\ Len(out.x) = args.nrow
    /\ \A r \in 1..args.nrow :
        LET J == {j \in 1..(Len(args.when_cases) \div 2) : CondHolds(j, r)}
        IN  IF J = {} THEN out.x[r] = NA
            ELSE out.x[r] = ValueAt(args.when_cases[2 * SetMin(J)], r)

\* Two cases with different values: both hold at row 1, which takes the
\* first value, and none holds at row 2, which is NA.
C9_Witness ==
    /\ fn = "case_when" /\ args.nrow = 2 /\ Len(args.when_cases) = 4
    /\ CondHolds(1, 1) /\ CondHolds(2, 1)
    /\ ~CondHolds(1, 2) /\ ~CondHolds(2, 2)
    /\ ValueAt(args.when_cases[2], 1) # ValueAt(args.when_cases[4], 1)
    /\ out.x[1] = ValueAt(args.when_cases[2], 1)
    /\ out.x[2] = NA

\* C10: case_when with an odd number of case arguments raises ValueError
\* before any case is evaluated, in the data-frame variant and in the
\* list/tuple/array variant alike.
C10_OddArgumentsRaise ==
    (fn \in {"case_when", "case_when_plyrda", "case_when_list"}
        /\ Len(args.when_cases) % 2 = 1) =>
    /\ err = "ValueError"
    /\ out.applied = 0
    /\ out.x = <<>>

\* Three arguments given to the list variant.
C10_Witness ==
    /\ fn = "case_when_list" /\ Len(args.when_cases) = 3 /\ args.nrow = 2
    /\ err = "ValueError" /\ out.applied = 0


\* ---------------------------------------------------------------- if_else
\* missing = None, the default of if_else.
NoneNum == -2

\* An element of a condition is "T", "F" or "NA" (a nullable boolean
\* vector; a plain boolean vector has no "NA").
CondElems == {"T", "F", "NA"}

\* Mutant of invert: the condition is not inverted.
invert_forgotten(condition) == condition

\* numpy.invert(condition): elementwise not, a missing element stays missing.
invert(condition) ==
    [r \in Idx(condition) |->
        IF condition[r] = "T" THEN "F"
        ELSE IF condition[r] = "F" THEN "T"
        ELSE "NA"]

\* The condition as the mask df.loc takes: a missing element selects
\* nothing (pandas treats NA in a boolean indexer as False).
AsMask(condition) == <<"mask", [r \in Idx(condition) |-> condition[r] = "T"]>>

\* if_else: case_when(_data, ~condition, false, condition, true, True, missing)
if_else(nrow, condition, true, false, missing) ==
    case_when(nrow, <<AsMask(invert(condition)), false,
                      AsMask(condition), true,
                      TrueLit, <<"scalar", missing>>>>)

\* missing: None, or a value that is no value of true or false.
MissingChoices == {NoneNum, 0}

InitIfElse ==
    /\ \E nrow \in 0..MaxRows :
        args \in [nrow : {nrow}, condition : [1..nrow -> CondElems],
                  true : CaseValues(nrow), false : CaseValues(nrow),
                  missing : MissingChoices]
    /\ fn = "none"
    /\ out = <<>>
    /\ err = "none"

CallIfElse ==
    /\ fn = "none"
    /\ fn' = "if_else"
    /\ LET r == if_else(args.nrow, args.condition, args.true, args.false, args.missing)
       IN  err' = r[1] /\ out' = [x |-> r[2], applied |-> r[3]]
    /\ UNCHANGED args

NextIfElse == CallIfElse

SpecIfElse == InitIfElse /\ [][NextIfElse]_vars

\* C11: if_else gives every row the value of true where the condition is
\* TRUE, the value of false where it is FALSE and missing where it is
\* neither; a row whose condition is TRUE or FALSE never gets missing.
C11_IfElse ==
    fn = "if_else" =>
    /\ err = "none"
    /\ Len(out.x) = args.nrow
    /\ \A r \in 1..args.nrow :
        /\ args.condition[r] = "T" => out.x[r] = ValueAt(args.true, r)
        /\ args.condition[r] = "F" => out.x[r] = ValueAt(args.false, r)
        /\ args.condition[r] = "NA" => out.x[r] = args.missing
        /\ args.condition[r] # "NA" => out.x[r] # args.missing

\* A TRUE row and a FALSE row with different values of true and false.
C11_Witness ==
    /\ fn = "if_else" /\ args.nrow = 2
    /\ args.condition = <<"T", "F">>
    /\ ValueAt(args.true, 1) # ValueAt(args.false, 1)
    /\ out.x = <<ValueAt(args.true, 1), ValueAt(args.false, 2)>>


\* --------------------------------------------------------------- coalesce
\* x and every replacement are <<"scalar", v>> or <<"vector", s>>.
CoElems == {1, 2, NA}
CoVectors == UNION {[1..l -> CoElems] : l \in 0..MaxCoLen}
CoItems == ({"scalar"} \X CoElems) \cup ({"vector"} \X CoVectors)
\* No, one or two replacements.
CoReplace == {<<>>} \cup {<<a>> : a \in CoItems} \cup {<<a, b>> : a, b \in CoItems}

\* Series.combine_first: the index of the result is the union of the two
\* indexes; a position takes the value of x unless x is missing or absent
\* there, and then the value of other (missing when other is absent).
combine_first(x, other) ==
    [i \in 1..Max2(Len(x), Len(other)) |->
        IF i <= Len(x) /\ x[i] # NA THEN x[i]
        ELSE IF i <= Len(other) THEN other[i]
        ELSE NA]

\* Series(repl if is_iterable(repl) else [repl] * len(x))
ReplSeries(repl, x) ==
    IF repl[1] = "vector" THEN repl[2] ELSE [i \in Idx(x) |-> repl[2]]

\* for repl in replace: x = x.combine_first(...), after the first k.
RECURSIVE coalesce_loop(_, _, _)
coalesce_loop(x, replace, k) ==
    IF k = 0 THEN x
    ELSE LET before == coalesce_loop(x, replace, k - 1)
         IN  combine_first(before, ReplSeries(replace[k], before))

\* coalesce(x, *replace) of datar: <<exception, result>>.
coalesce(x, replace) ==
    IF Len(replace) = 0 THEN <<"none", x>>
    ELSE IF x[1] = "vector"
    THEN <<"none", <<"vector", coalesce_loop(x[2], replace, Len(replace))>>>>
    ELSE <<"none", IF x[2] = NA THEN replace[1] ELSE x>>

\* coalesce(x, replace) of plyrda, which takes one replacement and raises
\* ValueError when its length is not the length of x.
coalesce_plyrda(x, replace) ==
    IF x[1] = "vector"
    THEN IF replace[1] = "vector" /\ Len(replace[2]) # Len(x[2])
         THEN <<"ValueError", <<>>>>
         ELSE <<"none", <<"vector",
                    [i \in Idx(x[2]) |->
                        IF x[2][i] = NA THEN ReplSeries(replace, x[2])[i]
                        ELSE x[2][i]]>>>>
    ELSE <<"none", IF x[2] = NA THEN replace ELSE x>>

InitCoalesce ==
    /\ args \in [x : CoItems, replace : CoReplace]
    /\ fn = "none"
    /\ out = <<>>
    /\ err = "none"

CallCoalesce ==
    /\ fn = "none"
    /\ fn' = "coalesce"
    /\ LET r == coalesce(args.x, args.replace)
       IN  err' = r[1] /\ out' = r[2]
    /\ UNCHANGED args

CallCoalescePlyrda ==
    /\ fn = "none"
    /\ Len(args.replace) = 1
    /\ fn' = "coalesce_plyrda"
    /\ LET r == coalesce_plyrda(args.x, args.replace[1])
       IN  err' = r[1] /\ out' = r[2]
    /\ UNCHANGED args

NextCoalesce == CallCoalesce \/ CallCoalescePlyrda

SpecCoalesce == InitCoalesce /\ [][NextCoalesce]_vars

\* What x and the replacements hold at position i, x first; a vector that
\* does not reach i holds nothing (missing) there.
CoCandidates(i) ==
    <<args.x[2][i]>> \o
    [k \in Idx(args.replace) |->
        IF args.replace[k][1] = "scalar" THEN args.replace[k][2]
        ELSE IF i <= Len(args.replace[k][2]) THEN args.replace[k][2][i]
        ELSE NA]

FirstNonMissing(c) ==
    IF NotNA(c) = {} THEN NA ELSE c[SetMin(NotNA(c))]

\* C12: coalesce(x, *replace) returns a vector of the length of x in which
\* position i holds the first non-missing value among x[i], replace_1[i],
\* replace_2[i], ... (a scalar replacement stands for itself at every
\* position), whatever the length of a replacement vector; with no
\* replacement it returns x unchanged.
C12_Coalesce ==
    (fn \in {"coalesce", "coalesce_plyrda"} /\ args.x[1] = "vector") =>
    /\ err = "none"
    /\ out[1] = "vector"
    /\ Len(out[2]) = Len(args.x[2])
    /\ \A i \in Idx(args.x[2]) : out[2][i] = FirstNonMissing(CoCandidates(i))
    /\ Len(args.replace) = 0 => out = args.x


\* ------------------------------------------------------------- replace_na
\* The piped data is <<"vector", s>>; data_or_replace and replace are None,
\* <<"scalar", v>> or (data_or_replace only) <<"vector", s>>.
NaScalars == {"scalar"} \X {0, 1}
NaData == {"vector"} \X CoVectors

\* _replace_na(data, replace): a copy of data with replace at the missing
\* positions; data that is no collection cannot be iterated.
_replace_na(data, replace) ==
    IF data[1] = "vector"
    THEN <<"none", <<"vector", [i \in Idx(data[2]) |->
                        IF data[2][i] = NA THEN replace[2] ELSE data[2][i]]>>>>
    ELSE <<"TypeError", <<>>>>

\* Mutant of resolve: the piped data is always the data.
resolve_piped(data, data_or_replace, replace) ==
    IF replace = None THEN <<data, data_or_replace>> ELSE <<data, replace>>

\* Which argument is the data and which the replacement.
resolve(data, data_or_replace, replace) ==
    IF replace = None THEN <<data, data_or_replace>>
    ELSE <<IF data_or_replace = None THEN data ELSE data_or_replace, replace>>

replace_na(data, data_or_replace, replace) ==
    IF data_or_replace = None /\ replace = None THEN <<"none", data>>
    ELSE LET r == resolve(data, data_or_replace, replace)
         IN  _replace_na(r[1], r[2])

\* A vector is given as data_or_replace only where it is the data.
InitReplaceNa ==
    /\ \E data \in NaData, replace \in {None} \cup NaScalars :
        \E dor \in {None} \cup NaScalars \cup (IF replace = None THEN {} ELSE NaData) :
            args = [data |-> data, data_or_replace |-> dor, replace |-> replace]
    /\ fn = "none"
    /\ out = <<>>
    /\ err = "none"

CallReplaceNa ==
    /\ fn = "none"
    /\ fn' = "replace_na"
    /\ LET r == replace_na(args.data, args.data_or_replace, args.replace)
       IN  err' = r[1] /\ out' = r[2]
    /\ UNCHANGED args

NextReplaceNa == CallReplaceNa

SpecReplaceNa == InitReplaceNa /\ [][NextReplaceNa]_vars

\* s with v at its missing positions.
Filled(s, v) == [i \in Idx(s) |-> IF s[i] = NA THEN v ELSE s[i]]

\* C13: with data_or_replace alone, it is the replacement and the piped data
\* is filled; with replace and data_or_replace, data_or_replace is the data
\* that is filled with replace and the piped data is ignored; with replace
\* alone the piped data is filled with replace.
C13_ReplaceNaArguments ==
    fn = "replace_na" =>
    /\ (args.data_or_replace # None /\ args.replace = None) =>
        /\ err = "none"
        /\ out = <<"vector", Filled(args.data[2], args.data_or_replace[2])>>
    /\ (args.data_or_replace \in NaData /\ args.replace # None) =>
        /\ err = "none"
        /\ out = <<"vector", Filled(args.data_or_replace[2], args.replace[2])>>
    /\ (args.data_or_replace = None /\ args.replace # None) =>
        /\ err = "none"
        /\ out = <<"vector", Filled(args.data[2], args.replace[2])>>

\* Both given, and the piped data would have given another result.
C13_Witness ==
    /\ fn = "replace_na"
    /\ args.data = <<"vector", <<1, NA>>>>
    /\ args.data_or_replace = <<"vector", <<NA, 2>>>>
    /\ args.replace = <<"scalar", 0>>
    /\ out = <<"vector", <<0, 2>>>>


\* ----------------------------------------------------------------- all_of
ColNames == {"a", "b", "c"}
Range(s) == {s[i] : i \in Idx(s)}
\* The columns of a frame: distinct names, in order.
Columns ==
    UNION {{s \in [1..l -> ColNames] : \A i, j \in 1..l : s[i] = s[j] => i = j} :
           l \in 0..MaxCols}
NameLists == UNION {[1..l -> ColNames] : l \in 0..MaxSel}

\* The elements of s that satisfy Keep, in order.
RECURSIVE SelectSeqBy(_, _)
SelectSeqBy(s, keep) ==
    IF s = <<>> THEN <<>>
    ELSE IF Head(s) \in keep THEN <<Head(s)>> \o SelectSeqBy(Tail(s), keep)
    ELSE SelectSeqBy(Tail(s), keep)

\* Mutant of all_of: the names that are no columns are dropped.
all_of_partial(columns, x) == <<"none", SelectSeqBy(x, Range(columns))>>

\* all_of(_data, x): <<exception, result>>.
all_of(columns, x) ==
    LET nonexists == Range(x) \ Range(columns)
    IN  IF nonexists # {} THEN <<"ColumnNotExistingError", <<>>>>
        ELSE <<"none", x>>

InitAllOf ==
    /\ args \in [columns : Columns, x : NameLists]
    /\ fn = "none"
    /\ out = <<>>
    /\ err = "none"

CallAllOf ==
    /\ fn = "none"
    /\ fn' = "all_of"
    /\ LET r == all_of(args.columns, args.x)
       IN  err' = r[1] /\ out' = r[2]
    /\ UNCHANGED args

NextAllOf == CallAllOf

SpecAllOf == InitAllOf /\ [][NextAllOf]_vars

\* C14: all_of raises ColumnNotExistingError, and returns nothing, when some
\* element of x is no column of the data; otherwise it returns exactly the
\* elements of x in their order.
C14_AllOf ==
    fn = "all_of" =>
        IF \E i \in Idx(args.x) : \A j \in Idx(args.columns) : args.columns[j] # args.x[i]
        THEN err = "ColumnNotExistingError" /\ out = <<>>
        ELSE err = "none" /\ out = args.x

\* One element of x is a column and another is not: nothing is returned.
C14_Witness ==
    /\ fn = "all_of"
    /\ args.columns = <<"a", "b">>
    /\ args.x = <<"b", "c">>
    /\ err = "ColumnNotExistingError"


\* ------------------------- starts_with, ends_with, contains, matches
\* A string is a sequence of characters.
Digits == {"1"}
StrNames == {<<"a">>, <<"A", "1">>, <<"1", "a">>, <<"a", "A">>}
\* Match strings; <<"\\", "d">> and <<"\\", "D">> are the regular
\* expressions of a digit and of a non-digit.
MatchStrs == {<<"a">>, <<"A">>, <<"1">>, <<"A", "1">>, <<"\\", "d">>, <<"\\", "D">>}

\* The columns of the data: distinct names.
StrColumns ==
    UNION {{s \in [1..l -> StrNames] : \A i, j \in 1..l : s[i] = s[j] => i = j} :
           l \in 0..MaxCols}
\* vars: not supplied, empty, or a list that names one column twice.
VarsChoices ==
    {<<"None", <<>>>>, <<"list", <<>>>>} \cup {<<"list", <<n, n>>>> : n \in StrNames}
\* match: one string, or a list of none or two strings.
MatchChoices ==
    ({"str"} \X MatchStrs) \cup {<<"list", <<>>>>}
    \cup {<<"list", <<m1, m2>>>> : m1, m2 \in MatchStrs}

\* str.lower()
lower(s) ==
    [i \in Idx(s) |-> IF s[i] = "A" THEN "a" ELSE IF s[i] = "D" THEN "d" ELSE s[i]]

startswith(cname, mat) ==
    Len(mat) <= Len(cname) /\ SubSeq(cname, 1, Len(mat)) = mat
endswith(cname, mat) ==
    Len(mat) <= Len(cname)
    /\ SubSeq(cname, Len(cname) - Len(mat) + 1, Len(cname)) = mat
\* mat in cname
contains_str(cname, mat) ==
    \E s \in 1..(Len(cname) - Len(mat) + 1) : SubSeq(cname, s, s + Len(mat) - 1) = mat

\* The tokens of a regular expression: a backslash and a letter make a
\* class, any other character is a literal.
RECURSIVE re_tokens(_)
re_tokens(p) ==
    IF p = <<>> THEN <<>>
    ELSE IF Head(p) = "\\" /\ Len(p) >= 2
    THEN <<<<"class", p[2]>>>> \o re_tokens(SubSeq(p, 3, Len(p)))
    ELSE <<<<"lit", Head(p)>>>> \o re_tokens(Tail(p))

re_token_matches(tok, ch, ignorecase) ==
    IF tok[1] = "class"
    THEN IF tok[2] = "d" THEN ch \in Digits ELSE ch \notin Digits
    ELSE IF ignorecase THEN lower(<<tok[2]>>) = lower(<<ch>>) ELSE tok[2] = ch

\* re.search(pattern, string, flags): ignorecase is the flag re.IGNORECASE.
re_search(pattern, string, ignorecase) ==
    LET toks == re_tokens(pattern)
    IN  \E s \in 1..(Len(string) - Len(toks) + 1) :
            \A k \in Idx(toks) : re_token_matches(toks[k], string[s + k - 1], ignorecase)

\* The func each helper hands to filter_columns, applied to (mat, cname).
func(helper, mat, cname) ==
    IF helper = "starts_with" THEN startswith(cname, mat)
    ELSE IF helper = "ends_with" THEN endswith(cname, mat)
    ELSE IF helper = "contains" THEN contains_str(cname, mat)
    ELSE re_search(mat, cname, FALSE)

\* The loops of filter_columns after k (match, column) pairs.
RECURSIVE filter_loop(_, _, _, _, _)
filter_loop(all_columns, match, ignore_case, helper, k) ==
    IF k = 0 THEN <<>>
    ELSE LET ret == filter_loop(all_columns, match, ignore_case, helper, k - 1)
             mat == match[((k - 1) \div Len(all_columns)) + 1]
             column == all_columns[((k - 1) % Len(all_columns)) + 1]
         IN  IF column \in Range(ret) THEN ret
             ELSE IF func(helper, IF ignore_case THEN lower(mat) ELSE mat,
                          IF ignore_case THEN lower(column) ELSE column)
             THEN Append(ret, column)
             ELSE ret

filter_columns(all_columns, match, ignore_case, helper) ==
    LET mats == IF match[1] = "list" THEN match[2] ELSE <<match[2]>>
    IN  filter_loop(all_columns, mats, ignore_case, helper,
                    Len(mats) * Len(all_columns))

\* vars or objectize(_data).columns
VarsOrColumns(given, columns) ==
    IF given[1] = "list" /\ given[2] # <<>> THEN given[2] ELSE columns

InitFilter ==
    /\ args \in [columns : StrColumns, vars : VarsChoices, match : MatchChoices,
                 ignore_case : BOOLEAN]
    /\ fn = "none"
    /\ out = <<>>
    /\ err = "none"

CallHelper(helper) ==
    /\ fn = "none"
    /\ fn' = helper
    /\ out' = filter_columns(VarsOrColumns(args.vars, args.columns), args.match,
                             args.ignore_case, helper)
    /\ err' = "none"
    /\ UNCHANGED args

CallStartsWith == CallHelper("starts_with")
CallEndsWith == CallHelper("ends_with")
CallContains == CallHelper("contains")
CallMatches == CallHelper("matches")

NextFilter == CallStartsWith \/ CallEndsWith \/ CallContains \/ CallMatches

SpecFilter == InitFilter /\ [][NextFilter]_vars

Helpers == {"starts_with", "ends_with", "contains", "matches"}

\* The pool: vars if supplied, else the columns of the data.
Pool == IF args.vars[1] = "list" THEN args.vars[2] ELSE args.columns

MatchSet == IF args.match[1] = "list" THEN Range(args.match[2]) ELSE {args.match[2]}

\* Match string m matches column c: prefix, suffix, substring or regular
\* expression search, without regard to case when ignore_case is set.
MatchesColumn(m, c) ==
    LET mm == IF args.ignore_case THEN lower(m) ELSE m
        cc == IF args.ignore_case THEN lower(c) ELSE c
    IN  IF fn = "starts_with" THEN startswith(cc, mm)
        ELSE IF fn = "ends_with" THEN endswith(cc, mm)
        ELSE IF fn = "contains" THEN contains_str(cc, mm)
        ELSE re_search(m, c, args.ignore_case)

\* C15: starts_with, ends_with, contains and matches return the union of the
\* matches over the match strings: a column of the pool (vars if supplied,
\* else the data's columns) is in the result exactly when a match string
\* matches it, it is there once, under its own name, and ignore_case makes
\* the matching ignore case.
C15_FilterColumns ==
    fn \in Helpers =>
    /\ err = "none"
    /\ \A i \in Idx(out) : \E j \in Idx(Pool) : out[i] = Pool[j]
    /\ \A i, j \in Idx(out) : out[i] = out[j] => i = j
    /\ \A j \in Idx(Pool) :
        (\E i \in Idx(out) : out[i] = Pool[j])
        <=> (\E m \in MatchSet : MatchesColumn(m, Pool[j]))


\* --------------------------------------------------------- select_columns
\* A column argument: a name, a position, a list of names, a negated
\* selection (Inverted, with its elems), a slice of positions, or something
\* that is none of the types check_column accepts.
SelLists == {<<>>, <<"a">>, <<"b">>, <<"c">>, <<"b", "a">>}
ColArgs ==
    ({"str"} \X ColNames) \cup ({"int"} \X {0, 1, 2})
    \cup ({"list"} \X SelLists) \cup ({"Inverted"} \X SelLists)
    \cup ({"slice"} \X {<<0, 1>>, <<1, 1>>}) \cup {<<"float", 0>>}

MixedError == "ColumnNameInvalidError: Either none or all of the columns are negative."
InvalidError == "ColumnNameInvalidError: Invalid column"

\* Mutant of list_diff: the lists are taken the other way round.
list_diff_swapped(list1, list2) == SelectSeqBy(list2, Range(list2) \ Range(list1))

\* [elem for elem in list1 if elem not in list2]
list_diff(list1, list2) == SelectSeqBy(list1, Range(list1) \ Range(list2))

\* The first loop of select_columns after k arguments: <<exception,
\* selected>>; an argument that raises ends the loop.
RECURSIVE select_loop(_, _, _)
select_loop(all_columns, columns, k) ==
    IF k = 0 THEN <<"none", <<>>>>
    ELSE LET before == select_loop(all_columns, columns, k - 1)
             column == columns[k]
         IN  IF before[1] # "none" THEN before
             ELSE IF column[1] = "float" THEN <<InvalidError, <<>>>>
             ELSE IF column[1] = "int"
             THEN IF column[2] < Len(all_columns)
                  THEN <<"none", Append(before[2], all_columns[column[2] + 1])>>
                  ELSE <<"IndexError", <<>>>>
             ELSE IF column[1] \in {"list", "Inverted"}
             THEN <<"none", before[2] \o column[2]>>
             ELSE IF column[1] = "slice"
             THEN <<"none", before[2] \o
                        SubSeq(all_columns, column[2][1] + 1,
                               Min2(column[2][2] + 1, Len(all_columns)))>>
             ELSE <<"none", Append(before[2], column[2])>>

\* Mutant of nonexist: a name that is no column is not noticed.
nonexist_unnoticed(all_columns, selected) == {}

\* The selected names that are no columns.
nonexist(all_columns, selected) == Range(selected) \ Range(all_columns)

\* Mutant of select_columns: the arguments are looked at before the
\* negated and the other ones are told apart.
select_columns_mixed_late(all_columns, columns, raise_nonexist) ==
    LET negs == {k \in Idx(columns) : columns[k][1] = "Inverted"}
        has_negs == negs # {}
        sel == select_loop(all_columns, columns, Len(columns))
    IN  IF sel[1] # "none" THEN sel
        ELSE IF has_negs /\ negs # Idx(columns) THEN <<MixedError, <<>>>>
        ELSE IF raise_nonexist /\ nonexist(all_columns, sel[2]) # {}
        THEN <<"ColumnNotExistingError", <<>>>>
        ELSE IF has_negs THEN <<"none", list_diff(all_columns, sel[2])>>
        ELSE sel

\* select_columns(all_columns, *columns, raise_nonexist): <<exception, result>>.
select_columns(all_columns, columns, raise_nonexist) ==
    LET negs == {k \in Idx(columns) : columns[k][1] = "Inverted"}
        has_negs == negs # {}
        sel == select_loop(all_columns, columns, Len(columns))
    IN  IF has_negs /\ negs # Idx(columns) THEN <<MixedError, <<>>>>
        ELSE IF sel[1] # "none" THEN sel
        ELSE IF raise_nonexist /\ nonexist(all_columns, sel[2]) # {}
        THEN <<"ColumnNotExistingError", <<>>>>
        ELSE IF has_negs THEN <<"none", list_diff(all_columns, sel[2])>>
        ELSE sel

InitSelect ==
    /\ \E l \in 0..MaxSel :
        args \in [all_columns : Columns, columns : [1..l -> ColArgs],
                  raise_nonexist : BOOLEAN]
    /\ fn = "none"
    /\ out = <<>>
    /\ err = "none"

CallSelectColumns ==
    /\ fn = "none"
    /\ fn' = "select_columns"
    /\ LET r == select_columns(args.all_columns, args.columns, args.raise_nonexist)
       IN  err' = r[1] /\ out' = r[2]
    /\ UNCHANGED args

NextSelect == CallSelectColumns

SpecSelect == InitSelect /\ [][NextSelect]_vars

Negated == {k \in Idx(args.columns) : args.columns[k][1] = "Inverted"}
Mixed == Negated # {} /\ Negated # Idx(args.columns)

\* C16: select_columns raises ColumnNameInvalidError ('Either none or all of
\* the columns are negative.') whenever negated and other arguments are
\* mixed, whatever the arguments are otherwise: no invalid argument, no
\* position out of range and no unknown name is reported instead.
C16_MixedNegatedRaises ==
    (fn = "select_columns" /\ Mixed) => (err = MixedError /\ out = <<>>)

\* Mixed arguments, one of them invalid and one naming no column.
C16_Witness ==
    /\ fn = "select_columns"
    /\ args.columns = <<<<"float", 0>>, <<"Inverted", <<"c">>>>>>
    /\ "c" \notin Range(args.all_columns)
    /\ args.raise_nonexist
    /\ err = MixedError


\* The names the arguments give directly, in a list or in a negated
\* selection.
NamesGiven ==
    UNION {IF args.columns[k][1] = "str" THEN {args.columns[k][2]}
           ELSE IF args.columns[k][1] \in {"list", "Inverted"}
           THEN Range(args.columns[k][2])
           ELSE {} : k \in Idx(args.columns)}
UnknownGiven == NamesGiven \ Range(args.all_columns)

\* Every argument is of an accepted type and every position is in range.
ArgumentsValid ==
    \A k \in Idx(args.columns) :
        /\ args.columns[k][1] # "float"
        /\ args.columns[k][1] = "int" => args.columns[k][2] < Len(args.all_columns)

RECURSIVE SelectedInOrder(_)
SelectedInOrder(k) ==
    IF k = 0 THEN <<>>
    ELSE SelectedInOrder(k - 1) \o
         (IF args.columns[k][1] = "str" THEN <<args.columns[k][2]>>
          ELSE IF args.columns[k][1] = "int"
          THEN <<args.all_columns[args.columns[k][2] + 1]>>
          ELSE IF args.columns[k][1] = "slice"
          THEN [i \in 1..(Min2(args.columns[k][2][2] + 1, Len(args.all_columns))
                          - args.columns[k][2][1]) |->
                    args.all_columns[args.columns[k][2][1] + i]]
          ELSE args.columns[k][2])

\* C18: when every argument is negated, the result of select_columns is the
\* columns of the pool that no negated selection names, in the order of the
\* pool; when no argument is negated, it is the selected columns in the
\* order of the arguments.
C18_SelectResult ==
    (fn = "select_columns" /\ err = "none") =>
    /\ (Negated # {} /\ Negated = Idx(args.columns)) =>
        /\ Range(out) = Range(args.all_columns) \ NamesGiven
        /\ \A i, j \in Idx(out) : i < j =>
            \E p, q \in Idx(args.all_columns) :
                p < q /\ args.all_columns[p] = out[i] /\ args.all_columns[q] = out[j]
    /\ Negated = {} => out = SelectedInOrder(Len(args.columns))

\* A negated selection leaves two columns, which keep the order of the pool.
C18_WitnessNegated ==
    /\ fn = "select_columns" /\ err = "none"
    /\ args.all_columns = <<"b", "c", "a">>
    /\ args.columns = <<<<"Inverted", <<"c">>>>>>
    /\ out = <<"b", "a">>


\* ------------------------------------------------- n_groups, group_size
\* A frame is its kind and the value of its grouping column in every row:
\* a DataFrame (ungrouped), a DataFrameGroupBy (grouped by that column) or a
\* rowwise frame.
FrameKinds == {"DataFrame", "DataFrameGroupBy", "rowwise"}
KeyColumns == UNION {[1..l -> 1..MaxKey] : l \in 0..MaxGRows}

\* A rowwise frame is grouped by its rows: the key of a row is its position.
RowwiseKeys(data) == [i \in Idx(data.keys) |-> i]

GroupKeys(data) == IF data.kind = "rowwise" THEN RowwiseKeys(data) ELSE data.keys

\* The keys of s in ascending order.
RECURSIVE SortedKeys(_)
SortedKeys(S) ==
    IF S = {} THEN <<>> ELSE <<SetMin(S)>> \o SortedKeys(S \ {SetMin(S)})

\* data.size(): the number of rows of every group, the groups sorted by key.
size(data) ==
    LET keys == GroupKeys(data)
        groups == SortedKeys(Range(keys))
    IN  [g \in Idx(groups) |-> Cardinality({i \in Idx(keys) : keys[i] = groups[g]})]

\* Mutant of n_groups: every frame is taken for an ungrouped one.
n_groups_one(data) == 1

n_groups(data) ==
    IF data.kind = "DataFrame" THEN 1 ELSE Len(size(data))

\* group_size: <<"int", n>> or <<"list", sizes>>.
group_size(data) ==
    IF data.kind = "DataFrame" THEN <<"int", Len(data.keys)>>
    ELSE <<"list", size(data)>>

\* out.n and out.sizes hold <<result>> once the function was called.
InitGroups ==
    /\ args \in [kind : FrameKinds, keys : KeyColumns]
    /\ fn = "none"
    /\ out = [n |-> <<>>, sizes |-> <<>>]
    /\ err = "none"

CallNGroups ==
    /\ out.n = <<>>
    /\ fn' = "n_groups"
    /\ out' = [out EXCEPT !.n = <<n_groups(args)>>]
    /\ UNCHANGED <<args, err>>

CallGroupSize ==
    /\ out.sizes = <<>>
    /\ fn' = "group_size"
    /\ out' = [out EXCEPT !.sizes = <<group_size(args)>>]
    /\ UNCHANGED <<args, err>>

NextGroups == CallNGroups \/ CallGroupSize

SpecGroups == InitGroups /\ [][NextGroups]_vars

RECURSIVE SumSeq(_)
SumSeq(s) == IF s = <<>> THEN 0 ELSE Head(s) + SumSeq(Tail(s))

BothCalled == fn \in {"n_groups", "group_size"} /\ out.n # <<>> /\ out.sizes # <<>>

\* C19: group_size returns a list of integers with one entry per group:
\* its length is n_groups and its entries sum to the number of rows; an
\* ungrouped frame has one group and group_size [number of rows]; a frame
\* grouped by a key has as many groups as distinct keys.
C19_GroupSize ==
    (BothCalled /\ args.kind \in {"DataFrame", "DataFrameGroupBy"}) =>
    /\ out.sizes[1][1] = "list"
    /\ Len(out.sizes[1][2]) = out.n[1]
    /\ SumSeq(out.sizes[1][2]) = Len(args.keys)
    /\ args.kind = "DataFrame" =>
        (out.n[1] = 1 /\ out.sizes[1][2] = <<Len(args.keys)>>)
    /\ args.kind = "DataFrameGroupBy" =>
        out.n[1] = Cardinality({args.keys[i] : i \in Idx(args.keys)})

IterRows == UNION {[1..l -> [g : 1..MaxKey, x : 1..2]] : l \in 0..MaxIRows}

\* The positions of the rows of key k, ascending.
RowsOfKey(rows, k) ==
    SelectSeqBy([i \in Idx(rows) |-> i], {i \in Idx(rows) : rows[i].g = k})

\* The rows at positions pos as a frame of their own: the index starts
\* again at 0, the grouping column stays unless keep is FALSE.
Chunk(rows, pos, keep) ==
    [j \in Idx(pos) |->
        IF keep THEN [index |-> j - 1, g |-> rows[pos[j]].g, x |-> rows[pos[j]].x]
        ELSE [index |-> j - 1, x |-> rows[pos[j]].x]]

\* Mutant of group_split: the chunks keep the index of the frame.
group_split_index_kept(frame, by, keep) ==
    IF frame.kind = "TibbleGrouped" \/ by = "g"
    THEN LET keys == SortedKeys({frame.rows[i].g : i \in Idx(frame.rows)})
         IN  [c \in Idx(keys) |->
                LET pos == RowsOfKey(frame.rows, keys[c])
                IN  [j \in Idx(pos) |->
                        [index |-> pos[j] - 1, g |-> frame.rows[pos[j]].g,
                         x |-> frame.rows[pos[j]].x]]]
    ELSE <<Chunk(frame.rows, [i \in Idx(frame.rows) |-> i], TRUE)>>

\* group_split(frame, by, _keep): one chunk per group, the groups in the
\* order of their keys; a frame without grouping column is one chunk.
group_split(frame, by, keep) ==
    IF frame.kind = "TibbleGrouped" \/ by = "g"
    THEN LET keys == SortedKeys({frame.rows[i].g : i \in Idx(frame.rows)})
         IN  [c \in Idx(keys) |-> Chunk(frame.rows, RowsOfKey(frame.rows, keys[c]), keep)]
    ELSE <<Chunk(frame.rows, [i \in Idx(frame.rows) |-> i], TRUE)>>

InitGroupIter ==
    /\ args \in [kind : {"DataFrame", "TibbleGrouped"}, rows : IterRows,
                 by : {"g", "none"}, keep : BOOLEAN, groups : {"g", "NULL"}]
    /\ fn = "none"
    /\ out = <<>>
    /\ err = "none"

CallGroupSplit ==
    /\ fn = "none"
    /\ fn' = "group_split"
    /\ out' = group_split([kind |-> args.kind, rows |-> args.rows], args.by, args.keep)
    /\ UNCHANGED <<args, err>>


\* Mutant of group_indices: the groups are numbered in the order of their
\* keys.
group_indices_sorted(frame) ==
    [i \in Idx(frame.rows) |->
        IF frame.kind = "TibbleGrouped"
        THEN Cardinality({frame.rows[p].g : p \in Idx(frame.rows)}
                         \cap 1..(frame.rows[i].g - 1))
        ELSE 0]

\* group_indices(frame): for every row the number of its group, the groups
\* numbered from 0 as their keys first appear; an ungrouped frame is one
\* group.
group_indices(frame) ==
    [i \in Idx(frame.rows) |->
        IF frame.kind = "TibbleGrouped"
        THEN LET first == SetMin({p \in Idx(frame.rows) : frame.rows[p].g = frame.rows[i].g})
             IN  Cardinality({frame.rows[p].g : p \in 1..(first - 1)})
        ELSE 0]

CallGroupIndices ==
    /\ fn = "none"
    /\ fn' = "group_indices"
    /\ out' = group_indices([kind |-> args.kind, rows |-> args.rows])
    /\ UNCHANGED <<args, err>>

\* mutate(y = mean(x)) on rows grouped by g (grouped TRUE) or taken as one
\* group: y is the mean of x over the group of the row, a fraction.
mutate_mean(rows, grouped) ==
    [i \in Idx(rows) |->
        LET pos == SelectSeqBy([p \in Idx(rows) |-> p],
                               {p \in Idx(rows) : ~grouped \/ rows[p].g = rows[i].g})
        IN  [g |-> rows[i].g, x |-> rows[i].x,
             y |-> Frac(SumSeq([q \in Idx(pos) |-> rows[pos[q]].x]), Len(pos))]]

\* Mutant of with_groups: the result keeps the temporary grouping.
with_groups_not_restored(frame, groups) ==
    [kind |-> IF groups = "g" THEN "TibbleGrouped" ELSE "DataFrame",
     rows |-> mutate_mean(frame.rows, groups = "g")]

\* with_groups(frame, groups, mutate, y=mean(f.x)): the frame is regrouped
\* by groups (ungrouped for NULL), mutate is applied, and the result gets
\* the class of the frame back.
with_groups(frame, groups) ==
    [kind |-> frame.kind, rows |-> mutate_mean(frame.rows, groups = "g")]

CallWithGroups ==
    /\ fn = "none"
    /\ fn' = "with_groups"
    /\ out' = with_groups([kind |-> args.kind, rows |-> args.rows], args.groups)
    /\ UNCHANGED <<args, err>>

NextGroupIter == CallGroupSplit \/ CallGroupIndices \/ CallWithGroups

SpecGroupIter == InitGroupIter /\ [][NextGroupIter]_vars


\* A chunk without its index, as rows of the frame.
Strip(chunk) == [j \in Idx(chunk) |-> [g |-> chunk[j].g, x |-> chunk[j].x]]

\* bind_rows(chunks): the rows of the chunks, one chunk after the other.
RECURSIVE bind_rows(_)
bind_rows(chunks) ==
    IF chunks = <<>> THEN <<>> ELSE Strip(Head(chunks)) \o bind_rows(Tail(chunks))

\* The rows of the frame whose key is k, in the order of the frame.
RowsKeyed(k) == SelectSeqBy(args.rows, {r \in Range(args.rows) : r.g = k})

IterKeys == {args.rows[i].g : i \in Idx(args.rows)}

\* C21: group_split returns one chunk per group; every chunk holds the rows
\* of one group in their order in the frame, with the index reset and the
\* grouping column kept (the default), so every row is in exactly one chunk;
\* bind_rows of the chunks gives the rows of the frame (every row as often
\* as the frame has it, and the frame itself when there is one chunk); a
\* frame with no grouping column gives one chunk equal to the frame.
C21_GroupSplit ==
    (fn = "group_split" /\ args.keep) =>
    /\ \A c \in Idx(out) : \A j \in Idx(out[c]) : out[c][j].index = j - 1
    /\ \A r \in [g : 1..MaxKey, x : 1..2] :
        Cardinality({i \in Idx(args.rows) : args.rows[i] = r})
        = Cardinality({i \in Idx(bind_rows(out)) : bind_rows(out)[i] = r})
    /\ Len(out) = 1 => bind_rows(out) = args.rows
    /\ (args.kind = "TibbleGrouped" \/ args.by = "g") =>
        /\ Len(out) = Cardinality(IterKeys)
        /\ \A k \in IterKeys :
            Cardinality({c \in Idx(out) : Strip(out[c]) = RowsKeyed(k)}) = 1
    /\ (args.kind = "DataFrame" /\ args.by = "none") =>
        /\ Len(out) = 1
        /\ Strip(out[1]) = args.rows

\* Two groups whose rows alternate in the frame.
C21_Witness ==
    /\ fn = "group_split" /\ args.keep /\ args.by = "g"
    /\ Len(args.rows) = 3
    /\ args.rows[1].g = 2 /\ args.rows[2].g = 1 /\ args.rows[3].g = 2
    /\ args.rows[1].x # args.rows[3].x
    /\ Len(out) = 2


C23_WithGroups ==
    fn = "with_groups" =>
    /\ out.kind = args.kind
    /\ Len(out.rows) = Len(args.rows)
    /\ args.groups = "NULL" =>
        \A i \in Idx(out.rows) :
            /\ out.rows[i].y[2] = Len(args.rows)
            /\ out.rows[i].y[1] = SumSeq([p \in Idx(args.rows) |-> args.rows[p].x])

\* A frame grouped by x = 1, 2 with groups NULL: the mean is 3/2 in both
\* rows and the result is grouped again.
C23_Witness ==
    /\ fn = "with_groups" /\ args.kind = "TibbleGrouped" /\ args.groups = "NULL"
    /\ Len(args.rows) = 2
    /\ \A i \in 1..2 : args.rows[i].g = i /\ args.rows[i].x = i
    /\ out.kind = "TibbleGrouped"
    /\ \A i \in 1..2 : out.rows[i].y = <<3, 2>>


\* ------------------------------------------------------ register_grouped
\* columns as written in the call; True and False equal 1 and 0.
ColumnsChoices == {"'*'", "0", "1", "2", "True", "'1'"}

\* The dispatch of register_grouped on columns: the wrapper it registers,
\* or the exception.
dispatch(columns) ==
    IF columns = "'*'" THEN <<"none", "coln">>
    ELSE IF columns \in {"1", "True"} THEN <<"none", "col1">>
    ELSE IF columns \in {"0", "False"} THEN <<"none", "col0">>
    ELSE <<"ValueError", "none">>

\* Mutant of wrapper: the function gets the whole column of a grouped frame.
wrapper_ungrouped(kind, rows) == <<[i \in Idx(rows) |-> rows[i].x]>>

\* The wrapper of a one-column (or no-column) function on column x: the
\* series the function is called with, one call after the other.  On a
\* DataFrame func(series); on a DataFrameGroupBy series.apply(func), which
\* calls func with the values of every group.
wrapper(kind, rows) ==
    IF kind = "DataFrame" THEN <<[i \in Idx(rows) |-> rows[i].x]>>
    ELSE LET keys == SortedKeys({rows[i].g : i \in Idx(rows)})
         IN  [c \in Idx(keys) |->
                LET pos == RowsOfKey(rows, keys[c])
                IN  [j \in Idx(pos) |-> rows[pos[j]].x]]

\* out.decorator: register_grouped was called without func and returned a
\* decorator; out.registered: the wrapper that is registered; out.calls:
\* the calls of func the wrapper made.
InitRegister ==
    /\ args \in [func_given : BOOLEAN, columns : ColumnsChoices,
                 kind : {"DataFrame", "DataFrameGroupBy"}, rows : IterRows]
    /\ fn = "none"
    /\ out = [decorator |-> FALSE, registered |-> "none", called |-> FALSE, calls |-> <<>>]
    /\ err = "none"

CallRegisterGrouped ==
    /\ fn = "none"
    /\ fn' = "register_grouped"
    /\ IF args.func_given
       THEN /\ err' = dispatch(args.columns)[1]
            /\ out' = [out EXCEPT !.registered = dispatch(args.columns)[2]]
       ELSE /\ err' = "none"
            /\ out' = [out EXCEPT !.decorator = TRUE]
    /\ UNCHANGED args

\* The decorator is applied to a function: register_grouped(fun, ...).
CallDecorator ==
    /\ out.decorator
    /\ fn' = "decorator"
    /\ err' = dispatch(args.columns)[1]
    /\ out' = [out EXCEPT !.decorator = FALSE, !.registered = dispatch(args.columns)[2]]
    /\ UNCHANGED args

\* The registered one-column or no-column function is called on the frame.
CallWrapper ==
    /\ out.registered \in {"col0", "col1"}
    /\ ~out.called
    /\ fn' = "wrapper"
    /\ out' = [out EXCEPT !.called = TRUE, !.calls = wrapper(args.kind, args.rows)]
    /\ UNCHANGED <<args, err>>

\* The registered function of any number of columns is called on an
\* ungrouped frame with column x: one call with the values of the column.
CallWrapperN ==
    /\ out.registered = "coln"
    /\ args.kind = "DataFrame"
    /\ ~out.called
    /\ fn' = "wrapper_n"
    /\ out' = [out EXCEPT !.called = TRUE, !.calls = <<[i \in Idx(args.rows) |-> args.rows[i].x]>>]
    /\ UNCHANGED <<args, err>>

NextRegister == CallRegisterGrouped \/ CallDecorator \/ CallWrapper \/ CallWrapperN

SpecRegister == InitRegister /\ [][NextRegister]_vars

\* C24: a one-column function registered with register_grouped is called,
\* on a grouped frame, once with the values of the column of every group
\* and, on an ungrouped frame, exactly once with the whole column;
\* register_grouped with columns other than '*', 0 or 1 raises ValueError
\* and registers nothing.
C24_RegisterGrouped ==
    /\ (fn = "wrapper" /\ args.columns \in {"1", "True"}) =>
        /\ args.kind = "DataFrame" =>
            out.calls = <<[i \in Idx(args.rows) |-> args.rows[i].x]>>
        /\ args.kind = "DataFrameGroupBy" =>
            /\ Len(out.calls) = Cardinality(IterKeys)
            /\ \A k \in IterKeys :
                \E c \in Idx(out.calls) :
                    out.calls[c] = [j \in Idx(RowsKeyed(k)) |-> RowsKeyed(k)[j].x]
    /\ (fn \in {"register_grouped", "decorator"} /\ ~out.decorator
        /\ args.columns \notin {"'*'", "0", "1", "True", "False"}) =>
        (err = "ValueError" /\ out.registered = "none")

\* A grouped frame of two groups whose rows alternate: two calls.
C24_Witness ==
    /\ fn = "wrapper" /\ args.columns = "1" /\ args.kind = "DataFrameGroupBy"
    /\ Len(args.rows) = 3
    /\ args.rows[1].g = 2 /\ args.rows[2].g = 1 /\ args.rows[3].g = 2
    /\ out.calls = <<<<args.rows[2].x>>, <<args.rows[1].x, args.rows[3].x>>>>

====
